---- MODULE Spec2Model ----
(***************************************************************************)
(* A model of web-ext's build command (src/unnamed/part_000) and of its    *)
(* FileFilter (src/src/util/file-filter.js).                               *)
(*                                                                         *)
(* Strings are sequences of one-character strings, so that the glob        *)
(* matcher, the token scanner and the file-name sanitiser work on          *)
(* characters as the code does.  A path is a sequence of segments; an      *)
(* absolute path "/s/a.zip" is <<"s", "a.zip">> (as character sequences),  *)
(* a path given by a caller carries a flag telling whether it is absolute. *)
(***************************************************************************)
EXTENDS Integers, Sequences, FiniteSets, TLC

VARIABLES
  \* ---- FileFilter (file-filter.js)
  filterOpts,    \* the options the FileFilter was constructed with
  fileFilter,    \* the FileFilter instance: [sourceDir, filesToIgnore]
  addedFiles,    \* the lists addToIgnoreList was called with after construction
  wanted,        \* the last wantFile call: [called, filePath, result]
  \* ---- getDefaultLocalizedName (part_000)
  locParams,     \* {messageFile, manifestData} and the state of the file
  locResult,     \* the settled promise of the last call
  \* ---- safeFileName (part_000)
  fileName,      \* the name and version a file name is made of, and the result
  \* ---- build (part_000)
  buildParams,   \* {asNeeded, manifestData, ...} of the build call
  pc,            \* where the body of build stands
  artifactsDirState, \* what prepareArtifactsDir has done so far
  buildPromise,  \* the promise build returned
  invocations,   \* the packageCreator invocations, in the order started
  watchers,      \* the onSourceChange registrations made by build
  changes,       \* the file changes the watcher has seen, in order
  logged,        \* what log.error was called with, in order
  onChangeResults \* the settled promises onChange returned, in order

vars == <<filterOpts, fileFilter, addedFiles, wanted, locParams, locResult, fileName,
          buildParams, pc, artifactsDirState, buildPromise, invocations,
          watchers, changes, logged, onChangeResults>>

filterVars == <<filterOpts, fileFilter, addedFiles, wanted>>
locVars == <<locParams, locResult>>
nameVars == <<fileName>>
buildVars == <<buildParams, pc, artifactsDirState, buildPromise, invocations,
               watchers, changes, logged, onChangeResults>>

----------------------------------------------------------------------------
(* Bounds of the model.                                                    *)

\* The longest relative path (in segments) handed to wantFile.
MaxDepth == 3

----------------------------------------------------------------------------
(* Characters and strings.                                                 *)

\* The segments the model's paths and patterns are made of.
seg_s == <<"s">>
seg_w == <<"w">>
seg_t == <<"t">>
seg_o == <<"o">>
seg_a == <<"a">>
seg_hid == <<".", "h">>
seg_zip == <<"b", ".", "z", "i", "p">>
seg_xpi == <<"c", ".", "x", "p", "i">>
seg_nm == <<"n", "o", "d", "e", "_", "m", "o", "d", "u", "l", "e", "s">>
seg_dot == <<".">>
seg_dotdot == <<".", ".">>
seg_star == <<"*">>
seg_globstar == <<"*", "*">>

\* A path as a caller writes it: absolute ("/a/b") or relative ("a/b").
Abs(segs) == [abs |-> TRUE, segs |-> segs]
Rel(segs) == [abs |-> FALSE, segs |-> segs]

\* process.cwd(), an absolute directory.
cwd == <<seg_w>>

----------------------------------------------------------------------------
(* Node's path module, on segment sequences.                               *)

RECURSIVE NormalizeFrom(_, _)
\* Resolve "." and ".." and drop empty segments, left to right; acc is the
\* absolute path built so far.
NormalizeFrom(acc, segs) ==
  IF segs = <<>> THEN acc
  ELSE LET h == Head(segs) IN
       IF h = seg_dot \/ h = <<>> THEN NormalizeFrom(acc, Tail(segs))
       ELSE IF h = seg_dotdot
            THEN NormalizeFrom(IF acc = <<>> THEN acc
                               ELSE SubSeq(acc, 1, Len(acc) - 1), Tail(segs))
            ELSE NormalizeFrom(Append(acc, h), Tail(segs))

\* path.resolve(from, to), from an absolute directory: an absolute `to` wins.
PathResolve(from, to) ==
  IF to.abs THEN NormalizeFrom(<<>>, to.segs)
  ELSE NormalizeFrom(<<>>, from \o to.segs)

RECURSIVE CommonPrefixLen(_, _)
CommonPrefixLen(x, y) ==
  IF x = <<>> \/ y = <<>> \/ Head(x) # Head(y) THEN 0
  ELSE 1 + CommonPrefixLen(Tail(x), Tail(y))

\* path.relative(from, to) of two absolute paths: one ".." for each segment
\* of `from` below the common prefix, then the rest of `to`.  The empty
\* sequence is the empty string.
PathRelative(from, to) ==
  LET n == CommonPrefixLen(from, to) IN
  [i \in 1..(Len(from) - n) |-> seg_dotdot] \o SubSeq(to, n + 1, Len(to))

\* path.join(dir, ...segs) of an absolute dir.
PathJoin(dir, segs) == NormalizeFrom(<<>>, dir \o segs)

----------------------------------------------------------------------------
(* minimatch(path, pattern) with its default options (dot: false).         *)

\* A pattern segment is magic when it holds a "*"; the model's patterns use
\* no other glob character.
HasMagic(p) == \E i \in 1..Len(p) : p[i] = "*"

RECURSIVE StarMatch(_, _)
\* The regular expression of a magic segment: "*" is [^/]*?, any other
\* character is itself, anchored at both ends.
StarMatch(p, f) ==
  IF p = <<>> THEN f = <<>>
  ELSE IF Head(p) = "*"
       THEN StarMatch(Tail(p), f) \/ (f # <<>> /\ StarMatch(p, Tail(f)))
       ELSE f # <<>> /\ Head(f) = Head(p) /\ StarMatch(Tail(p), Tail(f))

\* One path part against one pattern part that is not "**": a part without
\* magic is compared as a string; a magic part is its regular expression,
\* which never matches the empty part and, when it starts with "*", never
\* a part that starts with "." (patternStart is (?!\.) without dot: true).
SegMatch(p, f) ==
  IF HasMagic(p)
  THEN /\ f # <<>>
       /\ (Head(p) = "*" => Head(f) # ".")
       /\ StarMatch(p, f)
  ELSE f = p

\* What "**" never swallows: ".", ".." and, without dot: true, a part that
\* starts with ".".
Unswallowable(f) == f = seg_dot \/ f = seg_dotdot \/ (f # <<>> /\ Head(f) = ".")

RECURSIVE MatchOne(_, _)
\* Minimatch.prototype.matchOne(file, pattern, partial = false).
MatchOne(file, pattern) ==
  IF file # <<>> /\ pattern # <<>>
  THEN IF Head(pattern) = seg_globstar
       THEN IF Len(pattern) = 1
            THEN \* a ** at the end swallows the rest, but no dot part
                 \A i \in 1..Len(file) : ~Unswallowable(file[i])
            ELSE \* swallow 0, 1, ... parts, stopping at a dot part
                 \E k \in 0..(Len(file) - 1) :
                   /\ \A j \in 1..k : ~Unswallowable(file[j])
                   /\ MatchOne(SubSeq(file, k + 1, Len(file)), Tail(pattern))
       ELSE SegMatch(Head(pattern), Head(file))
            /\ MatchOne(Tail(file), Tail(pattern))
  ELSE IF file = <<>> /\ pattern = <<>> THEN TRUE
       ELSE IF file = <<>> THEN FALSE      \* partial
            ELSE Len(file) = 1 /\ Head(file) = <<>>   \* emptyFileEnd

\* minimatch(path, pattern) of two absolute path strings.
minimatch(path, pattern) == MatchOne(path, pattern)

----------------------------------------------------------------------------
(* file-filter.js                                                          *)

\* isSubPath(src, target): is target a strict descendant of src.  Both are
\* resolved against the working directory by path.relative.
isSubPath(src, target) ==
  LET relate == PathRelative(PathResolve(cwd, src), PathResolve(cwd, target)) IN
  IF relate = <<>> THEN FALSE
  ELSE IF relate = <<seg_dotdot>> THEN FALSE
       ELSE ~(Len(relate) >= 2 /\ relate[1] = seg_dotdot)

\* The default baseIgnoredPatterns.
baseIgnoredPatterns ==
  << Rel(<<seg_globstar, <<"*", ".", "x", "p", "i">> >>),
     Rel(<<seg_globstar, <<"*", ".", "z", "i", "p">> >>),
     Rel(<<seg_globstar, <<".", "*">> >>),
     Rel(<<seg_globstar, <<".", "*">>, seg_globstar, seg_star>>),
     Rel(<<seg_globstar, seg_nm>>),
     Rel(<<seg_globstar, seg_nm, seg_globstar, seg_star>>) >>

\* resolveWithSourceDir that resolves against the working directory.
resolveWithSourceDir_AgainstCwd(this, file) == PathResolve(cwd, file)

\* FileFilter.resolveWithSourceDir(file) of the filter this.
resolveWithSourceDir(this, file) == PathResolve(this.sourceDir, file)

RECURSIVE addToIgnoreList(_, _)
\* FileFilter.addToIgnoreList(files): push each file, resolved.
addToIgnoreList(this, files) ==
  IF files = <<>> THEN this
  ELSE addToIgnoreList(
         [this EXCEPT !.filesToIgnore =
            Append(@, resolveWithSourceDir(this, Head(files)))],
         Tail(files))

\* new FileFilter(opts).  opts.wextignore is the .wextignore file at the
\* root of sourceDir: whether it exists, whether it can be read, its lines.
NewFileFilter(opts) ==
  LET sourceDir == PathResolve(cwd, opts.sourceDir)
      this0 == [sourceDir |-> sourceDir, filesToIgnore |-> <<>>]
      this1 == IF opts.wextignore.exists /\ opts.wextignore.readable
               THEN addToIgnoreList(this0, opts.wextignore.lines)
               ELSE this0
      this2 == addToIgnoreList(this1, opts.baseIgnoredPatterns)
      this3 == addToIgnoreList(this2, opts.ignoreFiles)
  IN IF opts.artifactsDir.given
        /\ isSubPath(Abs(sourceDir), opts.artifactsDir.path)
     THEN LET artifactsDir == PathResolve(cwd, opts.artifactsDir.path) IN
          addToIgnoreList(this3,
            << Abs(artifactsDir),
               Abs(PathJoin(artifactsDir, <<seg_globstar, seg_star>>)) >>)
     ELSE this3

\* FirstMatch with the loop left after its first pattern, matching or not.
FirstMatch_FirstPatternOnly(this, resolvedPath, i) ==
  IF i <= Len(this.filesToIgnore) /\ minimatch(resolvedPath, this.filesToIgnore[i])
  THEN i ELSE 0

RECURSIVE FirstMatch(_, _, _)
\* The loop of wantFile: the index of the first pattern, from i on, that
\* matches resolvedPath; 0 when none does.
FirstMatch(this, resolvedPath, i) ==
  IF i > Len(this.filesToIgnore) THEN 0
  ELSE IF minimatch(resolvedPath, this.filesToIgnore[i]) THEN i
       ELSE FirstMatch(this, resolvedPath, i + 1)

\* FileFilter.wantFile(filePath).
wantFile(this, filePath) ==
  FirstMatch(this, resolveWithSourceDir(this, filePath), 1) = 0

----------------------------------------------------------------------------
(* getDefaultLocalizedName (part_000)                                      *)

Lower == {"a", "b", "c", "d", "e", "f", "g", "h", "i", "j", "k", "l", "m",
          "n", "o", "p", "q", "r", "s", "t", "u", "v", "w", "x", "y", "z"}
Upper == {"A", "B", "C", "D", "E", "F", "G", "H", "I", "J", "K", "L", "M",
          "N", "O", "P", "Q", "R", "S", "T", "U", "V", "W", "X", "Y", "Z"}
Digits == {"0", "1", "2", "3", "4", "5", "6", "7", "8", "9"}

\* [A-Za-z0-9@_]
IsMessageNameChar(c) == c \in Lower \cup Upper \cup Digits \cup {"@", "_"}

msgPrefix == <<"_", "_", "M", "S", "G", "_">>
msgSuffix == <<"_", "_">>

\* Does str hold the string `lit` at position i.
HasAt(str, i, lit) ==
  i + Len(lit) - 1 <= Len(str) /\ SubSeq(str, i, i + Len(lit) - 1) = lit

\* /__MSG_([A-Za-z0-9@_]+?)__/ tried at position i of name: the length of
\* the captured messageName, the shortest that lets the rest match; 0 when
\* the expression does not match at i.
MsgMatchAt(name, i) ==
  IF ~HasAt(name, i, msgPrefix) THEN 0
  ELSE LET from == i + Len(msgPrefix)
           fits == {k \in 1..(Len(name) - from + 1) :
                      /\ \A j \in 0..(k - 1) : IsMessageNameChar(name[from + j])
                      /\ HasAt(name, from + k, msgSuffix)}
       IN IF fits = {} THEN 0
          ELSE CHOOSE k \in fits : \A m \in fits : k <= m

\* No error, where an error could stand.
NoFile == [dir |-> <<>>, locale |-> ""]
NoError == [type |-> "none", about |-> "", key |-> <<>>, file |-> NoFile]

\* messageData[messageName].message is truthy: the entry has a message and
\* it is not the empty string.
HasMessage(entry) == entry.hasMessage /\ entry.message # <<>>

\* The UsageError thrown for a key the locale file lacks.
MissingKeyError(messageFile, messageName) ==
  [type |-> "UsageError", about |-> "missing key",
   key |-> messageName, file |-> messageFile]

\* The replacer without its check: a key with no message is replaced by
\* nothing.
replacer_NoThrow(messageData, messageFile, messageName) ==
  IF messageName \in DOMAIN messageData /\ HasMessage(messageData[messageName])
  THEN [threw |-> FALSE, error |-> NoError, value |-> messageData[messageName].message]
  ELSE [threw |-> FALSE, error |-> NoError, value |-> <<>>]

\* The function handed to String.replace, called with the captured
\* messageName: it throws when messageData has no such key or the entry has
\* no message (an absent or an empty one), and returns the message otherwise.
replacer(messageData, messageFile, messageName) ==
  IF ~(messageName \in DOMAIN messageData
         /\ HasMessage(messageData[messageName]))
  THEN [threw |-> TRUE, error |-> MissingKeyError(messageFile, messageName),
        value |-> <<>>]
  ELSE [threw |-> FALSE, error |-> NoError,
        value |-> messageData[messageName].message]

RECURSIVE ReplaceFrom_FirstOnly(_, _, _, _, _)
\* The replace without the g flag: only the first match is replaced.
ReplaceFrom_FirstOnly(name, messageData, messageFile, i, acc) ==
  IF i > Len(name) THEN [threw |-> FALSE, error |-> NoError, value |-> acc]
  ELSE LET k == MsgMatchAt(name, i) IN
       IF k = 0
       THEN ReplaceFrom_FirstOnly(name, messageData, messageFile, i + 1,
                                  Append(acc, name[i]))
       ELSE LET from == i + Len(msgPrefix)
                r == replacer(messageData, messageFile,
                              SubSeq(name, from, from + k - 1))
            IN IF r.threw THEN r
               ELSE [threw |-> FALSE, error |-> NoError,
                     value |-> acc \o r.value
                                 \o SubSeq(name, from + k + Len(msgSuffix), Len(name))]

RECURSIVE ReplaceFrom(_, _, _, _, _)
\* name.replace(/__MSG_(...)__/g, replacer) from position i on, acc being
\* the result so far: the matches are found left to right, none overlapping
\* the one before; an exception of the replacer ends the replace.
ReplaceFrom(name, messageData, messageFile, i, acc) ==
  IF i > Len(name) THEN [threw |-> FALSE, error |-> NoError, value |-> acc]
  ELSE LET k == MsgMatchAt(name, i) IN
       IF k = 0
       THEN ReplaceFrom(name, messageData, messageFile, i + 1, Append(acc, name[i]))
       ELSE LET from == i + Len(msgPrefix)
                r == replacer(messageData, messageFile,
                              SubSeq(name, from, from + k - 1))
            IN IF r.threw THEN r
               ELSE ReplaceFrom(name, messageData, messageFile,
                                from + k + Len(msgSuffix), acc \o r.value)

\* getDefaultLocalizedName({messageFile, manifestData}), with the state of
\* the message file: "unreadable", "unparsable" or "ok" with its content.
getDefaultLocalizedName(messageFile, manifestName, file) ==
  IF file.state = "unreadable"
  THEN [state |-> "rejected",
        error |-> [type |-> "UsageError", about |-> "reading",
                   key |-> <<>>, file |-> messageFile],
        value |-> <<>>]
  ELSE IF file.state = "unparsable"
  THEN [state |-> "rejected",
        error |-> [type |-> "UsageError", about |-> "parsing",
                   key |-> <<>>, file |-> messageFile],
        value |-> <<>>]
  ELSE LET r == ReplaceFrom(manifestName, file.messageData, messageFile, 1, <<>>) IN
       IF r.threw
       THEN [state |-> "rejected", error |-> r.error, value |-> <<>>]
       ELSE [state |-> "resolved", error |-> NoError, value |-> r.value]

----------------------------------------------------------------------------
(* safeFileName and defaultPackageCreator (part_000)                       *)

UpperSeq == <<"A", "B", "C", "D", "E", "F", "G", "H", "I", "J", "K", "L", "M",
              "N", "O", "P", "Q", "R", "S", "T", "U", "V", "W", "X", "Y", "Z">>
LowerSeq == <<"a", "b", "c", "d", "e", "f", "g", "h", "i", "j", "k", "l", "m",
              "n", "o", "p", "q", "r", "s", "t", "u", "v", "w", "x", "y", "z">>

\* String.toLowerCase, one character.
ToLowerChar(c) ==
  IF c \in Upper THEN LowerSeq[CHOOSE i \in 1..Len(UpperSeq) : UpperSeq[i] = c]
  ELSE c

toLowerCase(str) == [i \in 1..Len(str) |-> ToLowerChar(str[i])]

\* [a-z0-9\.-]
IsSafeChar(c) == c \in Lower \cup Digits \cup {".", "-"}

RECURSIVE ReplaceUnsafeRuns_EachChar(_)
\* The replace without the "+": every character outside the class becomes
\* a "_" of its own.
ReplaceUnsafeRuns_EachChar(str) ==
  IF str = <<>> THEN <<>>
  ELSE <<IF IsSafeChar(Head(str)) THEN Head(str) ELSE "_">>
         \o ReplaceUnsafeRuns_EachChar(Tail(str))

RECURSIVE ReplaceUnsafeRuns(_)
\* str.replace(/[^a-z0-9\.-]+/g, '_'): each longest run of other characters
\* becomes one "_".
ReplaceUnsafeRuns(str) ==
  IF str = <<>> THEN <<>>
  ELSE IF IsSafeChar(Head(str)) THEN <<Head(str)>> \o ReplaceUnsafeRuns(Tail(str))
       ELSE IF Len(str) >= 2 /\ ~IsSafeChar(str[2])
            THEN ReplaceUnsafeRuns(Tail(str))
            ELSE <<"_">> \o ReplaceUnsafeRuns(Tail(str))

safeFileName(name) == ReplaceUnsafeRuns(toLowerCase(name))

\* `${extensionName}-${manifestData.version}.zip`, made safe.
PackageName(extensionName, version) ==
  safeFileName(extensionName \o <<"-">> \o version \o <<".", "z", "i", "p">>)

\* An Error that is not a UsageError, from the named collaborator.
ErrorFrom(collaborator) ==
  [type |-> "Error", about |-> collaborator, key |-> <<>>, file |-> NoFile]

\* The files below sourceDir that zipDir walks over.
SourceFiles(sourceDir) ==
  {sourceDir \o <<seg_a>>, sourceDir \o <<seg_hid>>, sourceDir \o <<seg_nm, seg_a>>}

\* The call packageCreator({manifestData, sourceDir, fileFilter, ...}) up to
\* its first await: with manifestData given it is at zipDir, without it at
\* getValidatedManifest.  origin tells who called: build itself or onChange.
\* params are the arguments of the call, steps the names of the calls made
\* so far, messageFile what messages.json turned out to be ("unread" while
\* it has not been read).
NewInvocation(origin, params) ==
  [origin |-> origin,
   params |-> params,
   phase |-> IF params.manifestGiven THEN "zip" ELSE "manifest",
   steps |-> IF params.manifestGiven THEN <<"zipDir">>
             ELSE <<"getValidatedManifest">>,
   messageFile |-> "unread",
   buffer |-> {},
   extensionPath |-> <<>>,
   streamOpen |-> FALSE,
   written |-> FALSE,
   error |-> NoError]

\* The invocation after its name is known: createWriteStream(extensionPath)
\* and stream.write(buffer, ...) are called, streamToPromise is awaited.
WithStreamOpened(inv, params, extensionName) ==
  [inv EXCEPT !.phase = "write",
              !.steps = inv.steps \o <<"createWriteStream", "stream.write">>,
              !.streamOpen = TRUE,
              !.extensionPath =
                 PathJoin(params.artifactsDir,
                          <<PackageName(extensionName, params.manifest.version)>>)]

Rejected(inv, error) == [inv EXCEPT !.phase = "rejected", !.error = error]
Resolved(inv) == [inv EXCEPT !.phase = "resolved"]

Settled(inv) == inv.phase \in {"resolved", "rejected"}

----------------------------------------------------------------------------
(* The FileFilter on its own: a filter is constructed from some options    *)
(* and asked about a path.                                                 *)

\* The names a path handed to wantFile is made of.
QuerySegments == {seg_a, seg_o, seg_hid, seg_zip, seg_nm}

RECURSIVE SeqsUpTo(_, _)
\* The sequences over S of length 0..n.
SeqsUpTo(S, n) ==
  IF n = 0 THEN {<<>>}
  ELSE LET shorter == SeqsUpTo(S, n - 1) IN
       shorter \cup {Append(q, x) : q \in {r \in shorter : Len(r) = n - 1}, x \in S}

\* The paths wantFile is asked about: relative ones of up to MaxDepth
\* segments, some that leave sourceDir, and some absolute ones.
QueryPaths ==
  {Rel(q) : q \in SeqsUpTo(QuerySegments, MaxDepth) \ {<<>>}}
    \cup {Rel(<<seg_xpi>>), Rel(<<seg_a, seg_xpi>>), Rel(<<seg_hid, seg_xpi>>),
          Rel(<<seg_dotdot, seg_t, seg_zip>>), Rel(<<seg_a, seg_dotdot, seg_hid>>),
          Abs(<<seg_t, seg_zip>>), Abs(<<seg_s, seg_o, seg_hid>>),
          Abs(<<seg_w, seg_s, seg_o, seg_a>>), Abs(<<seg_s>>)}

NoWextignore == [exists |-> FALSE, readable |-> FALSE, lines |-> <<>>]
NoArtifactsDir == [given |-> FALSE, path |-> Abs(<<>>)]

\* The options a filter is constructed with.
FilterOptions ==
  [ sourceDir : {Abs(<<seg_s>>), Rel(<<seg_s>>)},
    wextignore : {NoWextignore,
                  [exists |-> TRUE, readable |-> FALSE, lines |-> <<>>],
                  \* "a/*\n": the line and the empty string after it
                  [exists |-> TRUE, readable |-> TRUE,
                   lines |-> <<Rel(<<seg_a, seg_star>>), Rel(<<>>)>>]},
    baseIgnoredPatterns : {baseIgnoredPatterns, <<>>},
    ignoreFiles : {<<>>, <<Rel(<<seg_globstar, seg_a>>), Abs(<<seg_t, seg_star>>)>>},
    artifactsDir : {NoArtifactsDir,
                    [given |-> TRUE, path |-> Abs(<<seg_s, seg_o>>)],
                    [given |-> TRUE, path |-> Rel(<<seg_s, seg_o>>)],
                    [given |-> TRUE, path |-> Abs(<<seg_s>>)],
                    [given |-> TRUE, path |-> Abs(<<>>)],
                    [given |-> TRUE, path |-> Abs(<<seg_w>>)]} ]

\* The other components' variables, while the filter is looked at alone.
IdleLoc ==
  /\ locParams = "none"
  /\ locResult = "none"

IdleBuild ==
  /\ buildParams = "none"
  /\ pc = "none"
  /\ artifactsDirState = "none"
  /\ buildPromise = "none"
  /\ invocations = <<>>
  /\ watchers = <<>>
  /\ changes = <<>>
  /\ logged = <<>>
  /\ onChangeResults = <<>>

IdleName == fileName = "none"

\* The other components' variables, while the filter is not looked at.
IdleFilter ==
  /\ filterOpts = "none"
  /\ fileFilter = "none"
  /\ addedFiles = <<>>
  /\ wanted = "none"

FilterInit ==
  /\ filterOpts \in FilterOptions
  /\ fileFilter = NewFileFilter(filterOpts)
  /\ addedFiles = <<>>
  /\ wanted \in {[called |-> FALSE, filePath |-> p, result |-> FALSE] : p \in QueryPaths}
  /\ IdleLoc
  /\ IdleName
  /\ IdleBuild

\* A caller asks wantFile(filePath): the filter answers and stays as it is.
WantFileCall ==
  /\ ~wanted.called
  /\ wanted' = [wanted EXCEPT !.called = TRUE,
                              !.result = wantFile(fileFilter, wanted.filePath)]
  /\ UNCHANGED <<filterOpts, fileFilter, addedFiles, locVars, nameVars, buildVars>>

FilterNext == WantFileCall

FilterSpec == FilterInit /\ [][FilterNext]_vars

----------------------------------------------------------------------------
(* The FileFilter and its ignore list: a filter is constructed and         *)
(* addToIgnoreList is called on it some times.                             *)

\* The most calls of addToIgnoreList after construction.
MaxAdds == 2

\* The lists addToIgnoreList is called with: a relative pattern; an
\* absolute one and a relative one that leaves sourceDir; a relative one
\* with a "." segment.
AddedFileLists ==
  { <<Rel(<<seg_a, seg_star>>)>>,
    <<Abs(<<seg_t, seg_star>>), Rel(<<seg_dotdot, seg_t>>)>>,
    <<Rel(<<seg_dot, seg_hid>>)>> }

AddInit ==
  /\ filterOpts \in FilterOptions
  /\ fileFilter = NewFileFilter(filterOpts)
  /\ addedFiles = <<>>
  /\ wanted = [called |-> FALSE, filePath |-> Abs(<<>>), result |-> FALSE]
  /\ IdleLoc
  /\ IdleName
  /\ IdleBuild

\* A caller calls addToIgnoreList(files) on the filter.
AddToIgnoreListCall(files) ==
  /\ Len(addedFiles) < MaxAdds
  /\ fileFilter' = addToIgnoreList(fileFilter, files)
  /\ addedFiles' = Append(addedFiles, files)
  /\ UNCHANGED <<filterOpts, wanted, locVars, nameVars, buildVars>>

AddNext == \E files \in AddedFileLists : AddToIgnoreListCall(files)

AddSpec == AddInit /\ [][AddNext]_vars

----------------------------------------------------------------------------
(* getDefaultLocalizedName on its own: it is called once with a manifest   *)
(* name, a message file and what that file holds.                          *)

\* The most pieces a manifest name is put together from.
MaxPieces == 3

key_a == <<"a">>
key_b == <<"b", "_", "1">>

\* The pieces of the manifest names: two tokens, plain text, and the
\* beginnings and ends of tokens.
NamePieces ==
  { msgPrefix \o key_a \o msgSuffix,
    msgPrefix \o key_b \o msgSuffix,
    <<"M", "y", " ">>,
    msgPrefix,
    <<"M", "S", "G", "_">> \o key_a \o msgSuffix,
    msgPrefix \o <<"a", "-">> \o msgSuffix }

RECURSIVE Flatten(_)
Flatten(pieces) ==
  IF pieces = <<>> THEN <<>> ELSE Head(pieces) \o Flatten(Tail(pieces))

ManifestNames == {Flatten(ps) : ps \in SeqsUpTo(NamePieces, MaxPieces)}

\* What a catalog may hold under a key.
Entries(text) ==
  { [hasMessage |-> TRUE, message |-> text],
    [hasMessage |-> TRUE, message |-> <<>>],
    [hasMessage |-> FALSE, message |-> <<>>] }

\* The message catalogs: each of the two keys absent or present.
Catalogs ==
  LET forA == Entries(<<"H", "i">>)
      forB == {[hasMessage |-> TRUE, message |-> <<"_", "x">>]}
  IN {<<>>}
       \cup {[k \in {key_a} |-> e] : e \in forA}
       \cup {[k \in {key_b} |-> e] : e \in forB}
       \cup {[k \in {key_a, key_b} |-> IF k = key_a THEN ea ELSE eb] :
               ea \in forA, eb \in forB}

MessageFiles ==
  {[state |-> "unreadable", messageData |-> <<>>],
   [state |-> "unparsable", messageData |-> <<>>]}
    \cup {[state |-> "ok", messageData |-> c] : c \in Catalogs}

\* path.join(sourceDir, '_locales', default_locale, 'messages.json')
MessageFilePath(sourceDir, default_locale) ==
  [dir |-> sourceDir, locale |-> default_locale]

Unsettled == [state |-> "pending", error |-> NoError, value |-> <<>>]

LocInit ==
  /\ locParams \in [ messageFile : {MessageFilePath(<<seg_s>>, "en"),
                                    MessageFilePath(<<seg_s>>, "fr")},
                     name : ManifestNames,
                     file : MessageFiles ]
  /\ locResult = Unsettled
  /\ IdleFilter
  /\ IdleName
  /\ IdleBuild

\* The call runs to its end and settles the promise it returned.
GetDefaultLocalizedNameCall ==
  /\ locResult.state = "pending"
  /\ locResult' = getDefaultLocalizedName(locParams.messageFile, locParams.name,
                                          locParams.file)
  /\ UNCHANGED <<locParams, filterVars, nameVars, buildVars>>

LocNext == GetDefaultLocalizedNameCall

LocSpec == LocInit /\ [][LocNext]_vars

----------------------------------------------------------------------------
(* safeFileName on its own: the package name is made from an extension     *)
(* name and a version.                                                     *)

\* The longest extension name (in characters) drawn from NameChars.
MaxNameLen == 3

\* Characters of each kind: upper and lower case, a digit, the two safe
\* marks, and three characters outside [a-z0-9.-].
NameChars == {"A", "b", "1", ".", "-", " ", "!", "_"}

my_ext == <<"M", "y", " ", "E", "x", "t", "!">>

ExtensionNames == SeqsUpTo(NameChars, MaxNameLen) \cup {my_ext}

Versions == {<<"1", ".", "0">>, <<"2", " ", "B">>}

NameInit ==
  /\ fileName \in [ called : {FALSE}, extensionName : ExtensionNames,
                    version : Versions, packageName : {<<>>} ]
  /\ IdleFilter
  /\ IdleLoc
  /\ IdleBuild

\* packageName = safeFileName(`${extensionName}-${manifestData.version}.zip`)
PackageNameCall ==
  /\ ~fileName.called
  /\ fileName' = [fileName EXCEPT
                    !.called = TRUE,
                    !.packageName = PackageName(fileName.extensionName,
                                                fileName.version)]
  /\ UNCHANGED <<filterVars, locVars, buildVars>>

NameNext == PackageNameCall

NameSpec == NameInit /\ [][NameNext]_vars

----------------------------------------------------------------------------
(* build (part_000): one call of build, the package creations it starts    *)
(* and, in watch mode, the file changes the watcher reports.               *)

\* The most file changes the watcher reports in one run.
MaxChanges == 2

Pending == [state |-> "pending", value |-> <<>>, error |-> NoError]

\* The manifests: a plain name without and with a default_locale, a
\* localized name, and a name that starts with a dot.
Manifests ==
  { [name |-> <<"M", "y", " ", "E", "x", "t">>, version |-> <<"1", ".", "0">>,
     default_locale |-> ""],
    [name |-> <<"M", "y", " ", "E", "x", "t">>, version |-> <<"1", ".", "0">>,
     default_locale |-> "en"],
    [name |-> msgPrefix \o key_a \o msgSuffix, version |-> <<"1", ".", "0">>,
     default_locale |-> "en"],
    [name |-> <<".", "x">>, version |-> <<"1", ".", "0">>,
     default_locale |-> ""] }

\* What messages.json may turn out to be when a package creation reads it.
BuildMessageFiles ==
  { [state |-> "unreadable", messageData |-> <<>>],
    [state |-> "unparsable", messageData |-> <<>>],
    [state |-> "ok", messageData |-> <<>>],
    [state |-> "ok",
     messageData |-> [k \in {key_a} |-> [hasMessage |-> TRUE, message |-> <<"H", "i">>]]] }

\* The paths whose change the watcher may see.
ChangedPaths(sourceDir) ==
  {Abs(sourceDir \o <<seg_a>>), Abs(sourceDir \o <<seg_hid>>),
   Abs(sourceDir \o <<seg_o, seg_zip>>)}

\* The archives written so far: stream.write(buffer) has put them on disk.
WrittenArchives ==
  {Abs(invocations[i].extensionPath) :
     i \in {j \in DOMAIN invocations : invocations[j].written}}

\* The call build({sourceDir, artifactsDir, asNeeded}, {manifestData,
\* fileFilter, ...}) up to its first await, prepareArtifactsDir: the filter
\* is the caller's, made for the same sourceDir and artifactsDir.
BuildInit ==
  /\ buildParams \in [ sourceDir : {<<seg_s>>},
                       artifactsDir : {<<seg_s, seg_o>>, <<seg_s, seg_hid>>},
                       asNeeded : BOOLEAN,
                       manifestGiven : BOOLEAN,
                       manifest : Manifests,
                       showReadyMessage : {TRUE} ]
  /\ filterOpts = [ sourceDir |-> Abs(buildParams.sourceDir),
                    wextignore |-> NoWextignore,
                    baseIgnoredPatterns |-> baseIgnoredPatterns,
                    ignoreFiles |-> <<>>,
                    artifactsDir |-> [given |-> TRUE,
                                      path |-> Abs(buildParams.artifactsDir)] ]
  /\ fileFilter = NewFileFilter(filterOpts)
  /\ addedFiles = <<>>
  /\ wanted = [called |-> FALSE, filePath |-> Abs(<<>>), result |-> FALSE]
  /\ IdleLoc
  /\ IdleName
  /\ pc = "prepareArtifactsDir"
  /\ artifactsDirState = "unprepared"
  /\ buildPromise = Pending
  /\ invocations = <<>>
  /\ watchers = <<>>
  /\ changes = <<>>
  /\ logged = <<>>
  /\ onChangeResults = <<>>

\* createPackage that starts nothing while a rebuild is still running.
createPackage_DropsWhenBusy(origin) ==
  invocations' =
    IF origin = "onChange"
         /\ \E i \in DOMAIN invocations :
              invocations[i].origin = "onChange"
                /\ invocations[i].phase \notin {"resolved", "rejected"}
    THEN invocations
    ELSE Append(invocations, NewInvocation(origin, buildParams))

\* createPackage(): packageCreator is called with the parameters of build.
createPackage(origin) ==
  invocations' = Append(invocations, NewInvocation(origin, buildParams))

\* shouldWatchFile that lets every path through.
shouldWatchFile_Everything(filePath) == TRUE

\* shouldWatchFile of the watcher: (...args) => fileFilter.wantFile(...args).
shouldWatchFile(filePath) == wantFile(fileFilter, filePath)

\* prepareArtifactsDir not awaited: its failure is lost and build goes on to
\* createPackage() either way.
PrepareArtifactsDirDone_NotAwaited ==
  /\ pc = "prepareArtifactsDir"
  /\ \E ok \in BOOLEAN :
       artifactsDirState' = IF ok THEN "prepared" ELSE "failed"
  /\ createPackage("build")
  /\ pc' = "createPackage"
  /\ UNCHANGED <<buildPromise, buildParams, watchers, changes, logged, onChangeResults,
                 filterVars, locVars, nameVars>>

\* await prepareArtifactsDir(artifactsDir) settles.  On success build goes
\* on to createPackage(); on failure the exception leaves build.
PrepareArtifactsDirDone ==
  /\ pc = "prepareArtifactsDir"
  /\ \E ok \in BOOLEAN :
       IF ok
       THEN /\ artifactsDirState' = "prepared"
            /\ createPackage("build")
            /\ pc' = "createPackage"
            /\ UNCHANGED buildPromise
       ELSE /\ artifactsDirState' = "failed"
            /\ buildPromise' = [Pending EXCEPT !.state = "rejected",
                                               !.error = ErrorFrom("prepareArtifactsDir")]
            /\ pc' = "threw"
            /\ UNCHANGED invocations
  /\ UNCHANGED <<buildParams, watchers, changes, logged, onChangeResults,
                 filterVars, locVars, nameVars>>

\* build with the first package creation's failure caught in watch mode:
\* the watcher is registered and the promise resolves all the same.
BuildAfterCreatePackage_CatchesInWatchMode(inv) ==
  IF inv.phase = "rejected" /\ ~buildParams.asNeeded
  THEN /\ buildPromise' = [Pending EXCEPT !.state = "rejected", !.error = inv.error]
       /\ pc' = "threw"
       /\ UNCHANGED <<watchers, logged, onChangeResults>>
  ELSE /\ watchers' = IF buildParams.asNeeded
                      THEN Append(watchers, [sourceDir |-> buildParams.sourceDir,
                                             artifactsDir |-> buildParams.artifactsDir])
                      ELSE watchers
       /\ buildPromise' = [Pending EXCEPT !.state = "resolved",
                                          !.value = inv.extensionPath]
       /\ pc' = "returned"
       /\ UNCHANGED <<logged, onChangeResults>>

\* build that registers the watcher whether asNeeded is set or not.
BuildAfterCreatePackage_AlwaysWatches(inv) ==
  IF inv.phase = "rejected"
  THEN /\ buildPromise' = [Pending EXCEPT !.state = "rejected", !.error = inv.error]
       /\ pc' = "threw"
       /\ UNCHANGED <<watchers, logged, onChangeResults>>
  ELSE /\ watchers' = Append(watchers, [sourceDir |-> buildParams.sourceDir,
                                        artifactsDir |-> buildParams.artifactsDir])
       /\ buildPromise' = [Pending EXCEPT !.state = "resolved",
                                          !.value = inv.extensionPath]
       /\ pc' = "returned"
       /\ UNCHANGED <<logged, onChangeResults>>

\* build after `await createPackage()` has settled with inv: a rejection
\* leaves build; otherwise the watcher is registered when asNeeded is set,
\* and the result is returned.
BuildAfterCreatePackage(inv) ==
  IF inv.phase = "rejected"
  THEN /\ buildPromise' = [Pending EXCEPT !.state = "rejected", !.error = inv.error]
       /\ pc' = "threw"
       /\ UNCHANGED <<watchers, logged, onChangeResults>>
  ELSE /\ watchers' = IF buildParams.asNeeded
                      THEN Append(watchers, [sourceDir |-> buildParams.sourceDir,
                                             artifactsDir |-> buildParams.artifactsDir])
                      ELSE watchers
       /\ buildPromise' = [Pending EXCEPT !.state = "resolved",
                                          !.value = inv.extensionPath]
       /\ pc' = "returned"
       /\ UNCHANGED <<logged, onChangeResults>>

\* The promise onChange returns, once createPackage() has settled with inv
\* and the catch handler has thrown the error again.
OnChangeResult(inv) ==
  IF inv.phase = "rejected"
  THEN [state |-> "rejected", error |-> inv.error]
  ELSE [state |-> "resolved", error |-> NoError]

\* onChange whose catch handler logs the error and does not throw it again.
OnChangeAfterCreatePackage_Swallows(inv) ==
  /\ logged' = IF inv.phase = "rejected" THEN Append(logged, inv.error) ELSE logged
  /\ onChangeResults' = Append(onChangeResults,
                               [state |-> "resolved", error |-> NoError])
  /\ UNCHANGED <<buildPromise, pc, watchers>>

\* onChange whose failure closes the watcher.
OnChangeAfterCreatePackage_StopsWatching(inv) ==
  /\ logged' = IF inv.phase = "rejected" THEN Append(logged, inv.error) ELSE logged
  /\ onChangeResults' = Append(onChangeResults, OnChangeResult(inv))
  /\ watchers' = IF inv.phase = "rejected" THEN <<>> ELSE watchers
  /\ UNCHANGED <<buildPromise, pc>>

\* onChange whose outcome is taken for the outcome of build.
OnChangeAfterCreatePackage_SettlesBuild(inv) ==
  /\ logged' = IF inv.phase = "rejected" THEN Append(logged, inv.error) ELSE logged
  /\ onChangeResults' = Append(onChangeResults, OnChangeResult(inv))
  /\ buildPromise' = IF inv.phase = "rejected"
                     THEN [Pending EXCEPT !.state = "rejected", !.error = inv.error]
                     ELSE [Pending EXCEPT !.state = "resolved",
                                          !.value = inv.extensionPath]
  /\ UNCHANGED <<pc, watchers>>

\* onChange after its createPackage() has settled with inv: the catch
\* handler logs the error and throws it again, so the promise onChange
\* returned settles as createPackage() did; nothing else is touched.
OnChangeAfterCreatePackage(inv) ==
  /\ logged' = IF inv.phase = "rejected" THEN Append(logged, inv.error) ELSE logged
  /\ onChangeResults' = Append(onChangeResults, OnChangeResult(inv))
  /\ UNCHANGED <<buildPromise, pc, watchers>>

\* Invocation i settles as inv, and its caller goes on.
Settle(i, inv) ==
  /\ invocations' = [invocations EXCEPT ![i] = inv]
  /\ IF inv.origin = "build"
     THEN BuildAfterCreatePackage(inv)
     ELSE OnChangeAfterCreatePackage(inv)

\* Invocation i goes on to inv, still running.
Continue(i, inv) ==
  /\ invocations' = [invocations EXCEPT ![i] = inv]
  /\ UNCHANGED <<buildPromise, pc, watchers, logged, onChangeResults>>

\* await getValidatedManifest(sourceDir) settles.
ManifestStep(i) ==
  /\ invocations[i].phase = "manifest"
  /\ \E ok \in BOOLEAN :
       IF ok THEN Continue(i, [invocations[i] EXCEPT
                                 !.phase = "zip",
                                 !.steps = Append(invocations[i].steps, "zipDir")])
       ELSE Settle(i, Rejected(invocations[i],
                               [ErrorFrom("getValidatedManifest") EXCEPT
                                  !.type = "InvalidManifest"]))
  /\ UNCHANGED <<buildParams, artifactsDirState, changes, filterVars, locVars, nameVars>>
\* The files zipDir puts into the buffer: those the filter wants.
Zipped(inv) ==
  [inv EXCEPT !.buffer = {f \in SourceFiles(inv.params.sourceDir) :
                            wantFile(fileFilter, Abs(f))}]

\* The name holds a __MSG_<key>__ token.
HasToken(name) == \E j \in 1..Len(name) : MsgMatchAt(name, j) > 0

\* The package creation that leaves messages.json alone when the name
\* holds no token.
ZipStep_SkipsWithoutToken(i) ==
  /\ invocations[i].phase = "zip"
  /\ \E ok \in BOOLEAN :
       IF ok
       THEN LET params == invocations[i].params
                zipped == Zipped(invocations[i])
            IN Continue(i, IF params.manifest.default_locale # ""
                                /\ HasToken(params.manifest.name)
                           THEN [zipped EXCEPT
                                   !.phase = "localize",
                                   !.steps = Append(zipped.steps,
                                                    "getDefaultLocalizedName")]
                           ELSE WithStreamOpened(zipped, params, params.manifest.name))
       ELSE Settle(i, Rejected(invocations[i], ErrorFrom("zipDir")))
  /\ UNCHANGED <<buildParams, artifactsDirState, changes, filterVars, locVars, nameVars>>
\* The package creation that opens the output file before the name is
\* localized.
ZipStep_OpensBeforeLocalize(i) ==
  /\ invocations[i].phase = "zip"
  /\ \E ok \in BOOLEAN :
       IF ok
       THEN LET params == invocations[i].params
                opened == WithStreamOpened(Zipped(invocations[i]), params,
                                           params.manifest.name)
            IN Continue(i, IF params.manifest.default_locale # ""
                           THEN [opened EXCEPT
                                   !.phase = "localize",
                                   !.steps = Append(opened.steps,
                                                    "getDefaultLocalizedName")]
                           ELSE opened)
       ELSE Settle(i, Rejected(invocations[i], ErrorFrom("zipDir")))
  /\ UNCHANGED <<buildParams, artifactsDirState, changes, filterVars, locVars, nameVars>>
\* await zipDir(sourceDir, {filter}) settles; the buffer holds the files the
\* filter wants.  Then the name is localized when the manifest has a
\* default_locale, and the stream is opened at once when it has none.
ZipStep(i) ==
  /\ invocations[i].phase = "zip"
  /\ \E ok \in BOOLEAN :
       IF ok
       THEN LET params == invocations[i].params
                zipped == Zipped(invocations[i])
            IN Continue(i, IF params.manifest.default_locale # ""
                           THEN [zipped EXCEPT
                                   !.phase = "localize",
                                   !.steps = Append(zipped.steps,
                                                    "getDefaultLocalizedName")]
                           ELSE WithStreamOpened(zipped, params, params.manifest.name))
       ELSE Settle(i, Rejected(invocations[i], ErrorFrom("zipDir")))
  /\ UNCHANGED <<buildParams, artifactsDirState, changes, filterVars, locVars, nameVars>>
\* await getDefaultLocalizedName({messageFile, manifestData}) settles, the
\* message file having been found in some state.
LocalizeStep(i) ==
  /\ invocations[i].phase = "localize"
  /\ \E file \in BuildMessageFiles :
       LET params == invocations[i].params
           read == [invocations[i] EXCEPT !.messageFile = file.state]
           r == getDefaultLocalizedName(
                  MessageFilePath(params.sourceDir, params.manifest.default_locale),
                  params.manifest.name, file)
       IN IF r.state = "rejected"
          THEN Settle(i, Rejected(read, r.error))
          ELSE Continue(i, WithStreamOpened(read, params, r.value))
  /\ UNCHANGED <<buildParams, artifactsDirState, changes, filterVars, locVars, nameVars>>
\* The package creation that returns from the callback of stream.write,
\* without awaiting the end of the stream.
WriteStep_ResolvesOnWrite(i) ==
  /\ invocations[i].phase = "write"
  /\ \E ok \in BOOLEAN :
       IF ok
       THEN Settle(i, Resolved([invocations[i] EXCEPT
                                  !.written = TRUE,
                                  !.steps = Append(invocations[i].steps, "stream.end")]))
       ELSE Settle(i, Rejected(invocations[i], ErrorFrom("write stream")))
  /\ UNCHANGED <<buildParams, artifactsDirState, changes, filterVars, locVars, nameVars>>
\* stream.write(buffer, callback): the buffer is written and the callback
\* ends the stream, or the stream fails.
WriteStep(i) ==
  /\ invocations[i].phase = "write"
  /\ \E ok \in BOOLEAN :
       IF ok
       THEN Continue(i, [invocations[i] EXCEPT
                           !.phase = "end",
                           !.written = TRUE,
                           !.steps = Append(invocations[i].steps, "stream.end")])
       ELSE Settle(i, Rejected(invocations[i], ErrorFrom("write stream")))
  /\ UNCHANGED <<buildParams, artifactsDirState, changes, filterVars, locVars, nameVars>>
\* The stream finishes: await streamToPromise(stream) settles and the
\* package creation returns {extensionPath}.
FinishStep(i) ==
  /\ invocations[i].phase = "end"
  /\ Settle(i, Resolved([invocations[i] EXCEPT !.streamOpen = FALSE]))
  /\ UNCHANGED <<buildParams, artifactsDirState, changes, filterVars, locVars, nameVars>>
\* The watcher sees a change of filePath: it calls onChange when
\* shouldWatchFile(filePath) holds, and onChange calls createPackage().
FileChange(filePath) ==
  /\ watchers # <<>>
  /\ Len(changes) < MaxChanges
  /\ LET qualifies == shouldWatchFile(filePath) IN
       /\ changes' = Append(changes, [filePath |-> filePath, delivered |-> qualifies])
       /\ IF qualifies THEN createPackage("onChange") ELSE UNCHANGED invocations
  /\ UNCHANGED <<buildParams, pc, artifactsDirState, buildPromise, watchers, logged,
                 onChangeResults,
                 filterVars, locVars, nameVars>>

Next ==
  \/ PrepareArtifactsDirDone
  \/ \E i \in DOMAIN invocations : ManifestStep(i)
  \/ \E i \in DOMAIN invocations : ZipStep(i)
  \/ \E i \in DOMAIN invocations : LocalizeStep(i)
  \/ \E i \in DOMAIN invocations : WriteStep(i)
  \/ \E i \in DOMAIN invocations : FinishStep(i)
  \/ \E filePath \in ChangedPaths(buildParams.sourceDir) \cup WrittenArchives :
       FileChange(filePath)

Spec == BuildInit /\ [][Next]_vars

----------------------------------------------------------------------------
(* Claims about build, checked under Spec.                                 *)

\* The package creations started by onChange that have not settled.
RebuildsInFlight ==
  {i \in DOMAIN invocations :
     invocations[i].origin = "onChange" /\ ~Settled(invocations[i])}

RebuildsWith(phase) ==
  {i \in DOMAIN invocations :
     invocations[i].origin = "onChange" /\ invocations[i].phase = phase}

\* C1: in watch mode at most one rebuild is in flight at any time.
C1_SingleFlight == Cardinality(RebuildsInFlight) <= 1

\* The watcher's answer on every change agrees with the filter, and with
\* what the filter let into the archive of every package creation.
C2_SameFilter ==
  \A k \in DOMAIN changes :
    /\ changes[k].delivered = wantFile(fileFilter, changes[k].filePath)
    /\ \A i \in DOMAIN invocations :
         (invocations[i].phase \in {"localize", "write", "end", "resolved"}
            /\ changes[k].filePath.segs \in SourceFiles(buildParams.sourceDir))
         => (changes[k].delivered <=> changes[k].filePath.segs \in invocations[i].buffer)

\* A step in which the watcher sees a change of a path the filter does not
\* want starts no package creation.
C2_IgnoredChangeStartsNothing ==
  (Len(changes') = Len(changes) + 1
     /\ ~wantFile(fileFilter, changes'[Len(changes')].filePath))
  => invocations' = invocations

\* C2: the watcher's shouldWatchFile answers as wantFile of the filter that
\* packaging uses, so a change of a path with wantFile false never leads to
\* a packageCreator invocation.
C2_WatcherUsesFilter ==
  /\ []C2_SameFilter
  /\ [][C2_IgnoredChangeStartsNothing]_vars

\* The case of C2: the watcher has seen a change it ignored and a change it
\* passed on.
C2_Witness ==
  /\ \E k \in DOMAIN changes : ~changes[k].delivered
  /\ \E k \in DOMAIN changes : changes[k].delivered
  /\ RebuildsWith("resolved") # {}

\* A change the filter wants is passed on and starts a package creation.
RebuildStarts ==
  \E filePath \in ChangedPaths(buildParams.sourceDir) :
    /\ FileChange(filePath)
    /\ Len(invocations') = Len(invocations) + 1
    /\ invocations'[Len(invocations')].origin = "onChange"
    /\ ~Settled(invocations'[Len(invocations')])

\* C3: a failed rebuild does not end the watch session: after failed
\* rebuilds the watcher is still registered and the next qualifying change
\* starts a packageCreator invocation.
C3_WatchSurvivesFailure ==
  (RebuildsWith("rejected") # {} /\ Len(changes) < MaxChanges)
  => (watchers # <<>> /\ ENABLED RebuildStarts)

\* The case of C3: a rebuild has completed after an earlier rebuild failed.
C3_Witness ==
  \E i, j \in DOMAIN invocations :
    /\ i < j
    /\ invocations[i].origin = "onChange" /\ invocations[i].phase = "rejected"
    /\ invocations[j].origin = "onChange" /\ invocations[j].phase = "resolved"

C5_PrepareFirst ==
  /\ invocations # <<>> => artifactsDirState = "prepared"
  /\ artifactsDirState = "failed" =>
       /\ buildPromise.state = "rejected"
       /\ buildPromise.error = ErrorFrom("prepareArtifactsDir")
       /\ invocations = <<>>
       /\ watchers = <<>>

\* The case of C5: prepareArtifactsDir has failed in watch mode.
C5_Witness ==
  /\ artifactsDirState = "failed"
  /\ buildParams.asNeeded
  /\ pc = "threw"

\* C6: when the initial package creation fails with an error, the promise
\* of build rejects with that error, with asNeeded set or not.
C6_InitialFailureRejects ==
  (invocations # <<>> /\ invocations[1].phase = "rejected")
  => /\ buildPromise.state = "rejected"
     /\ buildPromise.error = invocations[1].error
     /\ watchers = <<>>

\* The case of C6: in watch mode the initial package creation has failed in
\* localization.
C6_Witness ==
  /\ buildParams.asNeeded
  /\ invocations # <<>>
  /\ invocations[1].phase = "rejected"
  /\ invocations[1].error.type = "UsageError"
  /\ buildPromise.state = "rejected"

----------------------------------------------------------------------------
(* Claims about the FileFilter, checked under FilterSpec.                  *)

\* The longest pattern list of which every permutation is tried.
MaxPermLen == 4

\* path lies strictly below dir (both absolute).
Below(dir, path) ==
  Len(path) > Len(dir) /\ SubSeq(path, 1, Len(dir)) = dir

\* The path the last wantFile call was about, resolved, and its part below
\* sourceDir.
askedPath == PathResolve(fileFilter.sourceDir, wanted.filePath)
askedBelowSource == SubSeq(askedPath, Len(fileFilter.sourceDir) + 1, Len(askedPath))

IsHiddenName(seg) == seg # <<>> /\ Head(seg) = "."

EndsWith(seg, suffix) ==
  Len(seg) >= Len(suffix)
    /\ SubSeq(seg, Len(seg) - Len(suffix) + 1, Len(seg)) = suffix

\* A filter with the default base patterns and nothing else.
DefaultOptions(opts) ==
  /\ ~opts.wextignore.exists
  /\ opts.baseIgnoredPatterns = baseIgnoredPatterns
  /\ opts.ignoreFiles = <<>>
  /\ ~opts.artifactsDir.given

\* C7: with the default base patterns alone, wantFile is false for every
\* path below sourceDir that is hidden or inside a hidden folder, ends in
\* .zip or .xpi, or is or lies inside a node_modules directory.
C7_DefaultsIgnore ==
  ( /\ wanted.called
    /\ DefaultOptions(filterOpts)
    /\ Below(fileFilter.sourceDir, askedPath)
    /\ LET rel == askedBelowSource IN
       \/ \E i \in 1..Len(rel) : IsHiddenName(rel[i])
       \/ EndsWith(rel[Len(rel)], <<".", "z", "i", "p">>)
       \/ EndsWith(rel[Len(rel)], <<".", "x", "p", "i">>)
       \/ \E i \in 1..Len(rel) : rel[i] = seg_nm )
  => wanted.result = FALSE

\* The artifacts directory of the options, resolved.
askedArtifactsDir == PathResolve(cwd, filterOpts.artifactsDir.path)

\* C8: an artifactsDir strictly below sourceDir is ignored with everything
\* under it; any other artifactsDir changes no answer of the filter.
C8_ArtifactsDirIgnored ==
  wanted.called =>
    IF filterOpts.artifactsDir.given
         /\ Below(fileFilter.sourceDir, askedArtifactsDir)
    THEN (askedPath = askedArtifactsDir \/ Below(askedArtifactsDir, askedPath))
           => wanted.result = FALSE
    ELSE wanted.result =
           wantFile(NewFileFilter([filterOpts EXCEPT !.artifactsDir = NoArtifactsDir]),
                    wanted.filePath)

\* seq without its i-th element.
RemoveAt(seq, i) == SubSeq(seq, 1, i - 1) \o SubSeq(seq, i + 1, Len(seq))

RECURSIVE PermsOf(_)
\* Every permutation of seq.
PermsOf(seq) ==
  IF seq = <<>> THEN {<<>>}
  ELSE UNION {{<<seq[i]>> \o r : r \in PermsOf(RemoveAt(seq, i))} : i \in 1..Len(seq)}

\* seq with its i-th element moved to the front.
MovedToFront(seq, i) == <<seq[i]>> \o RemoveAt(seq, i)

\* The orders of a pattern list that are tried: all of them for a short
\* list; for a longer one, each element moved to the front, and the reverse.
Reorderings(seq) ==
  IF Len(seq) <= MaxPermLen THEN PermsOf(seq)
  ELSE {MovedToFront(seq, i) : i \in 1..Len(seq)}
         \cup {[k \in 1..Len(seq) |-> seq[Len(seq) + 1 - k]]}

C9_AnswerIsAnyMatch ==
  wanted.called =>
    /\ wanted.result = ~(\E i \in 1..Len(fileFilter.filesToIgnore) :
                            minimatch(askedPath, fileFilter.filesToIgnore[i]))
    /\ \A order \in Reorderings(fileFilter.filesToIgnore) :
         wantFile([fileFilter EXCEPT !.filesToIgnore = order], wanted.filePath)
           = wanted.result

\* C9: wantFile(p) is false exactly when some stored pattern matches p
\* resolved against sourceDir, whatever the order of the patterns, and a
\* call changes neither the patterns nor sourceDir.
C9_WantFile ==
  /\ []C9_AnswerIsAnyMatch
  /\ [][fileFilter' = fileFilter]_vars

\* The case of C9: a call answered false by a pattern that is not the first
\* of several.
C9_Witness ==
  /\ wanted.called
  /\ ~wanted.result
  /\ Len(fileFilter.filesToIgnore) >= 2
  /\ FirstMatch(fileFilter, askedPath, 1) >= 2

----------------------------------------------------------------------------
(* Claims about getDefaultLocalizedName, checked under LocSpec.            *)

RECURSIVE TokenKeysFrom(_, _)
\* The keys of the __MSG_<key>__ tokens of name from position i on, in the
\* order the scan finds them.
TokenKeysFrom(name, i) ==
  IF i > Len(name) THEN <<>>
  ELSE LET k == MsgMatchAt(name, i)
           from == i + Len(msgPrefix)
       IN IF k = 0 THEN TokenKeysFrom(name, i + 1)
          ELSE <<SubSeq(name, from, from + k - 1)>>
                 \o TokenKeysFrom(name, from + k + Len(msgSuffix))

\* The key is absent from the catalog, or its entry has no message field.
KeyAbsent(catalog, key) ==
  key \notin DOMAIN catalog \/ ~catalog[key].hasMessage

\* The catalog gives no text for the key: absent, no message field, or an
\* empty message.
KeyUnresolvable(catalog, key) ==
  key \notin DOMAIN catalog \/ ~HasMessage(catalog[key])

FirstTokenAt(name) ==
  LET starts == {i \in 1..Len(name) : MsgMatchAt(name, i) > 0}
  IN IF starts = {} THEN 0 ELSE CHOOSE i \in starts : \A j \in starts : i <= j

RECURSIVE Substituted(_, _)
\* The name with every token replaced by the message the catalog holds for
\* its key, and every other character as it was: the text before the first
\* token, the message, and the rest of the name treated the same way.
Substituted(name, catalog) ==
  LET p == FirstTokenAt(name) IN
  IF p = 0 THEN name
  ELSE LET k == MsgMatchAt(name, p)
           from == p + Len(msgPrefix)
       IN SubSeq(name, 1, p - 1)
            \o catalog[SubSeq(name, from, from + k - 1)].message
            \o Substituted(SubSeq(name, from + k + Len(msgSuffix), Len(name)), catalog)

----------------------------------------------------------------------------
(* Claims about safeFileName, checked under NameSpec.                      *)

\* [a-z0-9._-]
IsFileNameChar(c) == c \in Lower \cup Digits \cup {".", "_", "-"}

\* The positions of str that leave something in the file name: a character
\* of [a-z0-9.-], or the first character of a run of others.
KeptPositions(str) ==
  {i \in 1..Len(str) : IsSafeChar(str[i]) \/ i = 1 \/ IsSafeChar(str[i - 1])}

\* str with each longest run of characters outside [a-z0-9.-] replaced by
\* one "_", position by position.
RunsReplaced(str) ==
  LET kept == KeptPositions(str)
      nth(n) == CHOOSE i \in kept : Cardinality({j \in kept : j <= i}) = n
  IN [n \in 1..Cardinality(kept) |->
        IF IsSafeChar(str[nth(n)]) THEN str[nth(n)] ELSE "_"]

\* C12: the archive file name is safeFileName(name + '-' + version +
\* '.zip'), the lower-cased text with each maximal run of characters outside
\* [a-z0-9.-] replaced by a single '_'; it holds only characters of
\* [a-z0-9._-], ends in '.zip', and safeFileName leaves it unchanged.
C12_SafeFileName ==
  fileName.called =>
    LET text == fileName.extensionName \o <<"-">> \o fileName.version
                  \o <<".", "z", "i", "p">>
        lowered == [i \in 1..Len(text) |->
                      IF text[i] \in Upper THEN ToLowerChar(text[i]) ELSE text[i]]
        result == fileName.packageName
    IN /\ result = RunsReplaced(lowered)
       /\ \A i \in 1..Len(result) : IsFileNameChar(result[i])
       /\ Len(result) >= 4
       /\ SubSeq(result, Len(result) - 3, Len(result)) = <<".", "z", "i", "p">>
       /\ safeFileName(result) = result

\* The case of C12: "My Ext!" and version "1.0" have given
\* "my_ext_-1.0.zip".
C12_Witness ==
  /\ fileName.called
  /\ fileName.extensionName = my_ext
  /\ fileName.version = <<"1", ".", "0">>
  /\ fileName.packageName = <<"m", "y", "_", "e", "x", "t", "_", "-", "1", ".", "0",
                              ".", "z", "i", "p">>

----------------------------------------------------------------------------
(* Claims about the package creation and the watch mode, checked under     *)
(* Spec.                                                                   *)

\* The calls an invocation has made so far.
StepsOf(inv) == {inv.steps[k] : k \in DOMAIN inv.steps}

\* path.join(artifactsDir, safeFileName(`${name}-${version}.zip`))
ArchivePath(inv, name) ==
  PathJoin(inv.params.artifactsDir,
           <<PackageName(name, inv.params.manifest.version)>>)

\* C13: a package creation reads and parses messages.json exactly when
\* manifestData.default_locale is set.  With it set, the output file is
\* opened only after the file was read and parsed, and an unreadable or
\* unparsable file fails the package creation with a UsageError, whether
\* the name holds a token or not; without it the file is never read and
\* the archive is named after manifestData.name as it is.
C13_LocalizationIffDefaultLocale ==
  \A i \in DOMAIN invocations :
    LET inv == invocations[i]
        manifest == inv.params.manifest
    IN /\ manifest.default_locale = "" =>
            /\ inv.messageFile = "unread"
            /\ "getDefaultLocalizedName" \notin StepsOf(inv)
            /\ inv.extensionPath # <<>> =>
                  inv.extensionPath = ArchivePath(inv, manifest.name)
       /\ manifest.default_locale # "" =>
            /\ inv.extensionPath # <<>> => inv.messageFile = "ok"
            /\ inv.messageFile # "unread" =>
                  "getDefaultLocalizedName" \in StepsOf(inv)
            /\ inv.messageFile \in {"unreadable", "unparsable"} =>
                  /\ inv.phase = "rejected"
                  /\ inv.error.type = "UsageError"
                  /\ inv.error.about = IF inv.messageFile = "unreadable"
                                       THEN "reading" ELSE "parsing"
                  /\ inv.error.file = MessageFilePath(inv.params.sourceDir,
                                                      manifest.default_locale)
                  /\ inv.extensionPath = <<>>

\* The case of C13: a manifest with a default_locale and a name without a
\* token, and the package creation has failed on an unparsable
\* messages.json.
C13_Witness ==
  \E i \in DOMAIN invocations :
    /\ invocations[i].params.manifest.default_locale = "en"
    /\ ~HasToken(invocations[i].params.manifest.name)
    /\ invocations[i].messageFile = "unparsable"
    /\ invocations[i].phase = "rejected"
    /\ invocations[i].error.type = "UsageError"

\* The calls a package creation with these arguments makes when nothing
\* fails, in the order of the code.
StepsInOrder(params) ==
  (IF params.manifestGiven THEN <<>> ELSE <<"getValidatedManifest">>)
    \o <<"zipDir">>
    \o (IF params.manifest.default_locale # ""
        THEN <<"getDefaultLocalizedName">> ELSE <<>>)
    \o <<"createWriteStream", "stream.write", "stream.end">>

IsPrefix(a, b) == Len(a) <= Len(b) /\ SubSeq(b, 1, Len(a)) = a

\* The call whose failure the error of a rejected invocation reports.
FailedStep(inv) ==
  IF inv.error.type = "InvalidManifest" THEN "getValidatedManifest"
  ELSE IF inv.error.type = "UsageError" THEN "getDefaultLocalizedName"
  ELSE IF inv.error.about = "zipDir" THEN "zipDir"
  ELSE "stream.write"

\* The call an invocation that has not settled is waiting for.
AwaitedStep(inv) ==
  CASE inv.phase = "manifest" -> "getValidatedManifest"
    [] inv.phase = "zip" -> "zipDir"
    [] inv.phase = "localize" -> "getDefaultLocalizedName"
    [] inv.phase = "write" -> "stream.write"
    [] inv.phase = "end" -> "stream.end"

\* C14: within one package creation the steps run in the order manifest
\* load (when manifestData was not supplied), archive buffer creation,
\* localization, archive write, each started only when the one before has
\* succeeded: a manifest failure comes before any archive work, and after a
\* failure of manifest, archive or localization the output file is never
\* opened or written in that invocation.
C14_StepsInOrder ==
  \A i \in DOMAIN invocations :
    LET inv == invocations[i]
        last == inv.steps[Len(inv.steps)]
    IN /\ inv.steps # <<>>
       /\ IsPrefix(inv.steps, StepsInOrder(inv.params))
       /\ inv.phase \notin {"resolved", "rejected"} => last = AwaitedStep(inv)
       /\ inv.phase = "rejected" =>
            /\ last = FailedStep(inv)
            /\ last = "getValidatedManifest" => inv.buffer = {}
            /\ last \in {"getValidatedManifest", "zipDir", "getDefaultLocalizedName"} =>
                 /\ "createWriteStream" \notin StepsOf(inv)
                 /\ inv.extensionPath = <<>>
                 /\ ~inv.streamOpen
                 /\ ~inv.written

\* The case of C14: a package creation that loaded the manifest, made the
\* buffer and failed in localization, with no output file.
C14_Witness ==
  \E i \in DOMAIN invocations :
    /\ invocations[i].phase = "rejected"
    /\ invocations[i].steps
         = <<"getValidatedManifest", "zipDir", "getDefaultLocalizedName">>
    /\ invocations[i].buffer # {}
    /\ invocations[i].extensionPath = <<>>

\* The rebuilds that failed, and those that succeeded.
FailedRebuilds == RebuildsWith("rejected")
CountOf(results, state) ==
  Cardinality({k \in DOMAIN results : results[k].state = state})

\* What is logged and what the watcher gets back agree with the rebuilds
\* that have settled.
C15_FailuresAccounted ==
  /\ Len(logged) = Cardinality(FailedRebuilds)
  /\ CountOf(onChangeResults, "rejected") = Cardinality(FailedRebuilds)
  /\ CountOf(onChangeResults, "resolved") = Cardinality(RebuildsWith("resolved"))
  /\ \A i \in FailedRebuilds :
       /\ \E k \in DOMAIN logged : logged[k] = invocations[i].error
       /\ \E k \in DOMAIN onChangeResults :
            onChangeResults[k] = [state |-> "rejected", error |-> invocations[i].error]

\* A step in which a rebuild fails logs its error and rejects the promise
\* of onChange with it.
C15_FailureStep ==
  \A i \in DOMAIN invocations :
    ( /\ invocations[i].origin = "onChange"
      /\ invocations[i].phase # "rejected"
      /\ invocations'[i].phase = "rejected" )
    => /\ logged' = Append(logged, invocations'[i].error)
       /\ onChangeResults' = Append(onChangeResults,
                                    [state |-> "rejected",
                                     error |-> invocations'[i].error])

\* C15: for every watch-triggered rebuild that fails with an error E, E is
\* logged and the promise onChange returned to the watcher rejects with the
\* same E; a failed rebuild is never turned into a resolved promise.
C15_FailedRebuildLoggedAndRethrown ==
  /\ []C15_FailuresAccounted
  /\ [][C15_FailureStep]_vars

\* The case of C15: a rebuild has failed in writing the archive, the error
\* is logged and the promise of onChange is rejected with it.
C15_Witness ==
  \E i \in FailedRebuilds :
    /\ invocations[i].error = ErrorFrom("write stream")
    /\ logged = <<invocations[i].error>>
    /\ onChangeResults = <<[state |-> "rejected", error |-> invocations[i].error]>>

\* C16: the promise of a package creation resolves with {extensionPath}
\* only after the whole buffer was written to extensionPath and the write
\* stream has finished: in no state is it resolved while the write or the
\* end of the stream is pending.
C16_ResolvesAfterStreamFinished ==
  /\ \A i \in DOMAIN invocations :
       LET inv == invocations[i] IN
       /\ inv.phase = "resolved" =>
            /\ inv.written
            /\ ~inv.streamOpen
            /\ "stream.end" \in StepsOf(inv)
            /\ inv.extensionPath # <<>>
       /\ inv.phase \in {"write", "end"} => inv.streamOpen
       /\ inv.streamOpen => inv.phase \in {"write", "end", "rejected"}
  /\ buildPromise.state = "resolved" =>
       /\ invocations[1].phase = "resolved"
       /\ invocations[1].written
       /\ buildPromise.value = invocations[1].extensionPath

\* The case of C16: build has returned the path of an archive that is
\* written, its stream finished.
C16_Witness ==
  /\ buildPromise.state = "resolved"
  /\ buildPromise.value = <<seg_s, seg_o,
                            <<"m", "y", "_", "e", "x", "t", "-", "1", ".", "0",
                              ".", "z", "i", "p">> >>
  /\ invocations[1].written
  /\ ~invocations[1].streamOpen

\* The change notifications the watcher delivered to onChange, and the
\* package creations onChange started.
Delivered == {k \in DOMAIN changes : changes[k].delivered}
Rebuilds == {i \in DOMAIN invocations : invocations[i].origin = "onChange"}

\* As many rebuilds were started as notifications were delivered, each with
\* the arguments of the initial package creation.
C18_RebuildsMatchNotifications ==
  /\ Cardinality(Rebuilds) = Cardinality(Delivered)
  /\ \A i \in DOMAIN invocations :
       /\ invocations[i].params = invocations[1].params
       /\ invocations[i].params = buildParams
       /\ (i = 1 <=> invocations[i].origin = "build")

\* A step that delivers a notification starts one package creation, and no
\* step replaces the filter.
C18_NotificationStep ==
  /\ fileFilter' = fileFilter
  /\ (Len(changes') = Len(changes) + 1 /\ changes'[Len(changes')].delivered)
       => /\ Len(invocations') = Len(invocations) + 1
          /\ invocations'[Len(invocations')].origin = "onChange"

\* C18: in watch mode every change notification the watcher delivers to
\* onChange starts packageCreator exactly once, with the sourceDir,
\* artifactsDir, fileFilter, manifestData and showReadyMessage of the
\* initial build: the rebuilds started are as many as the notifications
\* delivered.
C18_OneRebuildPerNotification ==
  /\ []C18_RebuildsMatchNotifications
  /\ [][C18_NotificationStep]_vars

\* The case of C18: two notifications were delivered and two rebuilds
\* started, the second while the first was still running.
C18_Witness ==
  /\ Cardinality(Delivered) = 2
  /\ Cardinality(Rebuilds) = 2
  /\ Cardinality(RebuildsInFlight) = 2

\* C19: a rebuild never triggers itself: with the default base ignore
\* patterns in force and artifactsDir inside sourceDir, the path of the
\* archive a package creation writes is rejected by wantFile, so the change
\* made by writing it is not delivered to onChange.
C19_ArchiveIgnored ==
  /\ \A i \in DOMAIN invocations :
       invocations[i].extensionPath # <<>>
         => ~wantFile(fileFilter, Abs(invocations[i].extensionPath))
  /\ \A k \in DOMAIN changes :
       changes[k].filePath \in WrittenArchives => ~changes[k].delivered

\* C20 as stated: the watcher is registered at most once, and only when
\* asNeeded is true and the initial package creation has succeeded; when
\* asNeeded is false or the initial package creation fails, onSourceChange
\* is never called and packageCreator is invoked exactly once in total.
C20_ExactlyOneInvocation ==
  /\ Len(watchers) <= 1
  /\ watchers # <<>> =>
       (buildParams.asNeeded /\ invocations # <<>>
          /\ invocations[1].phase = "resolved")
  /\ ( /\ pc \in {"returned", "threw"}
       /\ \/ ~buildParams.asNeeded
          \/ (invocations # <<>> /\ invocations[1].phase = "rejected") )
     => (watchers = <<>> /\ Len(invocations) = 1)

\* C20, amended: the watcher is registered at most once, and only when
\* asNeeded is true and the initial package creation has succeeded; when
\* asNeeded is false or the initial package creation fails, onSourceChange
\* is never called and packageCreator is invoked at most once in total:
\* once when prepareArtifactsDir succeeded, and not at all when it failed.
C20_AtMostOneInvocation ==
  /\ Len(watchers) <= 1
  /\ watchers # <<>> =>
       (buildParams.asNeeded /\ invocations # <<>>
          /\ invocations[1].phase = "resolved")
  /\ (pc = "returned" /\ buildParams.asNeeded) => Len(watchers) = 1
  /\ ( \/ ~buildParams.asNeeded
       \/ (invocations # <<>> /\ invocations[1].phase = "rejected") )
     => /\ watchers = <<>>
        /\ Len(invocations) <= 1
        /\ pc \in {"returned", "threw"} =>
             Len(invocations) = IF artifactsDirState = "prepared" THEN 1 ELSE 0

\* The case of C20: build was called without asNeeded and
\* prepareArtifactsDir failed, so that packageCreator was not invoked.
C20_Witness ==
  /\ ~buildParams.asNeeded
  /\ pc = "threw"
  /\ artifactsDirState = "failed"
  /\ invocations = <<>>
  /\ watchers = <<>>

----------------------------------------------------------------------------
(* Claims about the ignore list, checked under AddSpec.                    *)

\* What the constructor hands to addToIgnoreList, in order: the lines of
\* .wextignore, the base patterns, ignoreFiles and, for an artifactsDir
\* inside sourceDir, the resolved artifactsDir and everything below it.
GivenAtConstruction(opts) ==
  (IF opts.wextignore.exists /\ opts.wextignore.readable
   THEN opts.wextignore.lines ELSE <<>>)
    \o opts.baseIgnoredPatterns
    \o opts.ignoreFiles
    \o (IF opts.artifactsDir.given
            /\ isSubPath(Abs(PathResolve(cwd, opts.sourceDir)), opts.artifactsDir.path)
        THEN LET artifactsDir == PathResolve(cwd, opts.artifactsDir.path) IN
             <<Abs(artifactsDir), Abs(artifactsDir \o <<seg_globstar, seg_star>>)>>
        ELSE <<>>)

\* No segment is "." or "..".
Plain(segs) == \A k \in 1..Len(segs) : segs[k] \notin {seg_dot, seg_dotdot}

\* The filter keeps the sourceDir resolved at construction.
C17_SourceDirKept ==
  /\ fileFilter.sourceDir = PathResolve(cwd, filterOpts.sourceDir)
  /\ filterOpts.sourceDir.abs => fileFilter.sourceDir = filterOpts.sourceDir.segs
  /\ ~filterOpts.sourceDir.abs => fileFilter.sourceDir = cwd \o filterOpts.sourceDir.segs

\* C17: after construction and any sequence of addToIgnoreList calls every
\* pattern stored in filesToIgnore is an absolute path glob: a relative
\* input joined onto sourceDir, an absolute input as given; and sourceDir
\* keeps the absolute value resolved at construction.
C17_PatternsAbsolute ==
  LET given == GivenAtConstruction(filterOpts) \o Flatten(addedFiles)
      stored == fileFilter.filesToIgnore
  IN /\ C17_SourceDirKept
     /\ Len(stored) = Len(given)
     /\ \A k \in 1..Len(stored) :
          /\ Plain(stored[k])
          /\ given[k].abs /\ Plain(given[k].segs) => stored[k] = given[k].segs
          /\ ~given[k].abs => stored[k] = PathJoin(fileFilter.sourceDir, given[k].segs)
          /\ ~given[k].abs /\ Plain(given[k].segs) =>
               stored[k] = fileFilter.sourceDir \o given[k].segs

\* The case of C17: a filter made for a relative sourceDir, with a
\* .wextignore, after two addToIgnoreList calls of which one added an
\* absolute and a relative pattern.
C17_Witness ==
  /\ ~filterOpts.sourceDir.abs
  /\ filterOpts.wextignore.readable
  /\ Len(addedFiles) = 2
  /\ addedFiles[1] = <<Rel(<<seg_a, seg_star>>)>>
  /\ Len(addedFiles[2]) = 2
  /\ fileFilter.filesToIgnore[Len(fileFilter.filesToIgnore)] = cwd \o <<seg_t>>

====
